---------------------------- MODULE Spec2Model ----------------------------
(***************************************************************************)
(* A model of nOmicron/microscope/continuous_spectroscopy.py: the          *)
(* compressed-sensing sampler and nearest-neighbour planner                *)
(* (compressedSensing, nn_tsp_matrix, tour_length) and the acquisition     *)
(* driver that walks the planned tour                                      *)
(* (get_compressed_sensing_scan_spectra), and the single-point             *)
(* acquisition (get_point_spectra).                                        *)
(*                                                                         *)
(* Arithmetic.  The sample ratio p is the exact rational pNum / PDen.      *)
(* A coordinate of the source, x = 1 - row * 2/(n-1), is kept multiplied   *)
(* by (n-1): X = (n-1) - 2*row, an integer, so |x|+|y| and all distances   *)
(* are those of the source times (n-1).  cdist's Euclidean distance is     *)
(* kept as its square (argmin is the same, sqrt being increasing), and a   *)
(* length, a sum of square roots, is kept exactly as the coefficients of   *)
(* the square roots of square-free integers: sqrt(8) + sqrt(2) is          *)
(* 3*sqrt(2), the function mapping 2 to 3.  Floating-point rounding is not *)
(* modelled.                                                               *)
(*                                                                         *)
(* Each operator that models a statement is preceded, where a property     *)
(* below depends on it, by a faulty variant of the same statement; the     *)
(* properties are checked to fail when the variant takes its place.        *)
(***************************************************************************)
EXTENDS Integers, Sequences, FiniteSets, TLC

VARIABLES
    entry,            \* the function the caller invoked
    shape,            \* inputProbDensArray.shape
    weights,          \* inputProbDensArray.flatten(), indexed from 0
    pNum,             \* p = pNum / PDen
    pc,               \* position in the running function
    error,            \* the exception that ended the run, or "none"
    rngCalls,         \* calls of np.random.choice so far
    TSP_points,       \* the sampled flat indices, in sampling order
    coord_arr,        \* the coordinates, in sampling order
    start_n,          \* index in coord_arr of the start point
    D,                \* nn_tsp_matrix: the distance matrix, masked as it goes
    visited,          \* nn_tsp_matrix: visited flags
    tour,             \* nn_tsp_matrix: indices in visiting order
    current,          \* nn_tsp_matrix: the index visited last
    i,                \* nn_tsp_matrix: loop counter
    approx_optimal_path_arr,      \* coords[tour]
    approx_optimal_path_length,   \* tour_length(coords[tour])
    repeats, forward_back, return_filename,  \* the driver's parameters
    calls,            \* instrument calls issued so far, in order
    rc,               \* mo.mate.rc
    view_count,       \* the module-level view_count
    delivered,        \* data events handed to the registered callback
    pos,              \* the driver's position in the tour
    x_data_total_lst, y_data_total_lst, filename_total_lst,
    x_data, y_data,   \* get_point_spectra: the module-level x_data and y_data
    result            \* get_point_spectra: the value returned

csVars == <<shape, weights, pNum, rngCalls, TSP_points, coord_arr, start_n>>
tspVars == <<D, visited, tour, current, i>>
outVars == <<approx_optimal_path_arr, approx_optimal_path_length>>
parVars == <<repeats, forward_back, return_filename>>
drvVars == <<calls, rc, view_count, delivered, pos,
             x_data_total_lst, y_data_total_lst, filename_total_lst>>
ptVars == <<x_data, y_data, result>>
vars == <<entry, pc, error, csVars, tspVars, outVars, parVars, drvVars, ptVars>>

-----------------------------------------------------------------------------
(* Bounds *)

MaxN == 3          \* density maps have at most MaxN rows and columns
MaxK == 4          \* a direct call of compressedSensing samples at most MaxK cells
PDen == 8          \* p ranges over the multiples of 1/PDen from -1/PDen to 1 + 1/PDen
MaxPlanK == 3      \* nn_tsp_matrix alone is run on at most MaxPlanK points
MaxDrvK == 2       \* the driver is run on tours of at most MaxDrvK points
MaxRepeats == 2    \* repeats ranges over 1..MaxRepeats
MaxEvents == 2     \* data events the instrument delivers during one scan

-----------------------------------------------------------------------------
(* Arrays are functions on 0..len-1, as in the source. *)

Empty == [j \in {} |-> 0]

ALen(a) == Cardinality(DOMAIN a)

Abs(x) == IF x < 0 THEN -x ELSE x

RECURSIVE Product(_)
Product(s) == IF s = <<>> THEN 1 ELSE Head(s) * Product(Tail(s))

RECURSIVE SumTo(_, _)
\* a[0] + ... + a[m-1]
SumTo(a, m) == IF m = 0 THEN 0 ELSE a[m - 1] + SumTo(a, m - 1)

\* math.ceil(a / b) for b > 0
Ceil(a, b) == -((-a) \div b)

-----------------------------------------------------------------------------
(* compressedSensing: validation *)

\* Faulty variant: the square check of lines 352-353 is missing.
ValidateNoSquareCheck(sh, pn) ==
    IF Len(sh) # 2 THEN "Exception"
    ELSE IF pn > PDen \/ pn < 0 THEN "Exception"
    ELSE "none"

\* Faulty variant: line 356 tests p > 1 only.
ValidateNoLowerBound(sh, pn) ==
    IF Len(sh) # 2 THEN "Exception"
    ELSE IF sh[1] # sh[2] THEN "Exception"
    ELSE IF pn > PDen THEN "Exception"
    ELSE "none"

\* The exception raised by lines 349-357, or "none".
Validate(sh, pn) ==
    IF Len(sh) # 2 THEN "Exception"
    ELSE IF sh[1] # sh[2] THEN "Exception"
    ELSE IF pn > PDen \/ pn < 0 THEN "Exception"
    ELSE "none"

\* math.ceil(p * len(flat_input))
NumSamples(w, pn) == Ceil(pn * ALen(w), PDen)

\* The cells np.random.choice can draw: those of positive probability.
Support(w) == {c \in DOMAIN w : w[c] > 0}

IsInjective(f) == \A a, b \in DOMAIN f : f[a] = f[b] => a = b

\* The results np.random.choice(a, size=k, replace=False, p=w/sum(w)) can
\* return: every sequence of k distinct cells of positive weight.
Draws(w, k) == {s \in [0 .. k - 1 -> Support(w)] : IsInjective(s)}

\* Whether np.random.choice can raise ValueError: a negative size, NaN
\* probabilities (an all-zero map), or fewer non-zero entries than size.
ChoiceRaises(w, k) ==
    \/ k < 0
    \/ SumTo(w, ALen(w)) = 0
    \/ Cardinality(Support(w)) < k

\* Whether np.random.choice can return a draw.
ChoiceReturns(w, k) == k >= 0 /\ Cardinality(Support(w)) >= k

-----------------------------------------------------------------------------
(* compressedSensing: coordinates and start index *)

\* Faulty variant: x taken from the column and y from the row.
CoordTransposed(point, n) ==
    << -(n - 1) + 2 * (point % n), (n - 1) - 2 * (point \div n) >>

\* Lines 376-377, times (n-1).
Coord(point, n) ==
    << (n - 1) - 2 * (point \div n), -(n - 1) + 2 * (point % n) >>

CoordArr(points, n) == [j \in DOMAIN points |-> Coord(points[j], n)]

\* Faulty variant: x + y.
L1NoAbs(c) == c[1] + c[2]

\* np.abs(x) + np.abs(y), line 380
L1(c) == Abs(c[1]) + Abs(c[2])

RECURSIVE StartScan(_, _, _, _)
\* The loop of lines 375-382 from iteration j on: the final start_n.
StartScan(coords, j, max_sum, best) ==
    IF j >= ALen(coords) THEN best
    ELSE IF L1(coords[j]) > max_sum
         THEN StartScan(coords, j + 1, L1(coords[j]), j)
         ELSE StartScan(coords, j + 1, max_sum, best)

StartIndex(coords) == StartScan(coords, 0, 0, 0)

-----------------------------------------------------------------------------
(* nn_tsp_matrix *)

\* Larger than every squared distance of the model: np.inf.
Inf == 8 * (MaxN + 1) * (MaxN + 1) + 1

SqDist(a, b) == (a[1] - b[1]) * (a[1] - b[1]) + (a[2] - b[2]) * (a[2] - b[2])

\* cdist(coords, coords), squared
Cdist(coords) ==
    [a \in DOMAIN coords |-> [b \in DOMAIN coords |-> SqDist(coords[a], coords[b])]]

\* Faulty variant: the visited points are not masked.
MaskRowNoMask(Dm, cur, vis) == Dm

\* D[current, visited] = np.inf, line 416
MaskRow(Dm, cur, vis) ==
    [Dm EXCEPT ![cur] = [b \in DOMAIN Dm[cur] |-> IF vis[b] THEN Inf ELSE Dm[cur][b]]]

\* Faulty variant: the last index of a minimal entry.
ArgminLast(row) ==
    CHOOSE a \in DOMAIN row :
        /\ \A b \in DOMAIN row : row[a] <= row[b]
        /\ \A b \in DOMAIN row : row[b] = row[a] => b <= a

\* row.argmin(): the first index of a minimal entry, line 418
Argmin(row) ==
    CHOOSE a \in DOMAIN row :
        /\ \A b \in DOMAIN row : row[a] <= row[b]
        /\ \A b \in DOMAIN row : row[b] = row[a] => a <= b

-----------------------------------------------------------------------------
(* tour_length *)

\* The largest s with s*s dividing d, for d >= 1.
SqPart(d) ==
    CHOOSE s \in 1 .. d :
        /\ d % (s * s) = 0
        /\ \A t \in s + 1 .. d : d % (t * t) # 0

Radicands == {f \in 1 .. Inf : SqPart(f) = 1}

ZeroLength == [f \in Radicands |-> 0]

\* len + sqrt(d)
AddRoot(len, d) ==
    IF d = 0 THEN len
    ELSE LET s == SqPart(d)
         IN  [len EXCEPT ![d \div (s * s)] = @ + s]

\* distance(coord_1, coord_2), line 426, added to len
AddDistance(len, a, b) == AddRoot(len, SqDist(a, b))

\* Python's t[j] for -len <= j < len
PyIndex(t, j) == IF j < 0 THEN t[ALen(t) + j] ELSE t[j]

RECURSIVE TourLengthFrom(_, _)
\* sum(distance(t[j], t[j-1]) for j in range(from, len(t)))
TourLengthFrom(t, from) ==
    IF from >= ALen(t) THEN ZeroLength
    ELSE AddDistance(TourLengthFrom(t, from + 1), t[from], PyIndex(t, from - 1))

\* tour_length, lines 428-431: j runs over range(len(tour)), from 0
tour_length(t) == TourLengthFrom(t, 0)

-----------------------------------------------------------------------------
(* Inputs *)

Size(sh) == Product(sh)

IsSquare2D(sh) == Len(sh) = 2 /\ sh[1] = sh[2]

\* 1-D, 2-D (square or not) and 3-D arrays
Shapes ==
    {<<d>> : d \in 1 .. MaxN}
        \cup {<<r, c>> : r, c \in 1 .. MaxN}
        \cup {<<d, d, d>> : d \in 1 .. 2}

\* Weight 0 on the first z cells (row-major), weight 1 on the rest.
ZeroPrefix(z, size) == [c \in 0 .. size - 1 |-> IF c < z THEN 0 ELSE 1]

DensityMaps(sh) ==
    IF IsSquare2D(sh)
    THEN {ZeroPrefix(z, Size(sh)) : z \in 0 .. Size(sh)}
    ELSE {ZeroPrefix(0, Size(sh))}

PNums == -1 .. PDen + 1

\* The points of the 3 x 3 grid, for nn_tsp_matrix run on its own.
PlannerPoints == {<<x, y>> : x, y \in {-2, 0, 2}}

\* Faulty variant: the channel is enabled before compressedSensing is called.
EntryCallsEnableFirst == <<[op |-> "enable_channel", arg |-> <<>>]>>

\* Instrument calls issued before line 243 runs: none, compressedSensing is
\* the first statement of get_compressed_sensing_scan_spectra.
EntryCalls == <<>>

Idle ==
    /\ error = "none"
    /\ rngCalls = 0
    /\ TSP_points = Empty
    /\ D = Empty /\ visited = Empty /\ tour = Empty /\ current = 0 /\ i = 0
    /\ approx_optimal_path_arr = Empty
    /\ approx_optimal_path_length = Empty
    /\ rc = "RMT_SUCCESS"
    /\ view_count = 0
    /\ delivered = 0
    /\ pos = 0
    /\ x_data_total_lst = <<>>
    /\ y_data_total_lst = <<>>
    /\ filename_total_lst = <<>>
    /\ x_data = "None" /\ y_data = Empty /\ result = "None"

\* A call compressedSensing(inputProbDensArray, p, drift).
InitCS ==
    /\ entry = "compressedSensing"
    /\ shape \in Shapes
    /\ weights \in DensityMaps(shape)
    /\ pNum \in PNums
    /\ Validate(shape, pNum) = "none" => NumSamples(weights, pNum) <= MaxK
    /\ pc = "cs_validate"
    /\ coord_arr = Empty /\ start_n = 0
    /\ repeats = 1 /\ forward_back = TRUE /\ return_filename = FALSE
    /\ calls = <<>>
    /\ Idle

\* A call nn_tsp_matrix(coords, start_idx) followed by tour_length, on any
\* non-empty array of points (equal points allowed) and any index into it.
InitPlanner ==
    /\ entry = "nn_tsp_matrix"
    /\ shape = <<3, 3>>
    /\ weights = ZeroPrefix(0, 9)
    /\ pNum = 0
    /\ pc = "nn_tsp"
    /\ \E k \in 1 .. MaxPlanK :
          /\ coord_arr \in [0 .. k - 1 -> PlannerPoints]
          /\ start_n \in 0 .. k - 1
    /\ repeats = 1 /\ forward_back = TRUE /\ return_filename = FALSE
    /\ calls = <<>>
    /\ Idle

-----------------------------------------------------------------------------
(* compressedSensing *)

Raise(e) == pc' = "raised" /\ error' = e

\* Lines 349-357.
CsValidate ==
    /\ pc = "cs_validate"
    /\ LET e == Validate(shape, pNum)
       IN  IF e # "none" THEN Raise(e)
           ELSE pc' = "cs_sample" /\ error' = error
    /\ UNCHANGED <<entry, csVars, tspVars, outVars, parVars, drvVars>>
    /\ UNCHANGED ptVars

\* Lines 360-363: np.random.choice returns a draw or raises ValueError (an
\* all-zero map with size 0 does either, by the numpy version).
CsSample ==
    /\ pc = "cs_sample"
    /\ rngCalls' = rngCalls + 1
    /\ LET k == NumSamples(weights, pNum)
       IN  \/ /\ ChoiceRaises(weights, k)
              /\ Raise("ValueError")
              /\ TSP_points' = TSP_points
           \/ /\ ChoiceReturns(weights, k)
              /\ TSP_points' \in Draws(weights, k)
              /\ pc' = "cs_coords"
              /\ error' = error
    /\ UNCHANGED <<entry, shape, weights, pNum, coord_arr, start_n,
                   tspVars, outVars, parVars, drvVars>>
    /\ UNCHANGED ptVars

\* Lines 366-384: the scale constant, the coordinate loop, start_coord.
CsCoords ==
    /\ pc = "cs_coords"
    /\ IF shape[1] - 1 = 0
       THEN /\ Raise("ZeroDivisionError")
            /\ UNCHANGED <<coord_arr, start_n>>
       ELSE /\ coord_arr' = CoordArr(TSP_points, shape[1])
            /\ start_n' = StartIndex(coord_arr')
            /\ IF start_n' \notin DOMAIN coord_arr'
               THEN Raise("IndexError")
               ELSE pc' = "nn_tsp" /\ error' = error
    /\ UNCHANGED <<entry, shape, weights, pNum, rngCalls, TSP_points,
                   tspVars, outVars, parVars, drvVars>>
    /\ UNCHANGED ptVars

\* current = start_idx, line 410
NnTspFirst(start_idx) == start_idx

\* Lines 401-412.
NnTspInit ==
    /\ pc = "nn_tsp"
    /\ D' = Cdist(coord_arr)
    /\ current' = NnTspFirst(start_n)
    /\ visited' = [j \in DOMAIN coord_arr |-> j = current']
    /\ tour' = [j \in DOMAIN coord_arr |-> IF j = 0 THEN current' ELSE -1]
    /\ i' = 1
    /\ pc' = "nn_tsp_loop"
    /\ UNCHANGED <<entry, error, csVars, outVars, parVars, drvVars>>
    /\ UNCHANGED ptVars

\* One iteration of the loop of lines 414-421.
NnTspStep ==
    /\ pc = "nn_tsp_loop"
    /\ i < ALen(coord_arr)
    /\ LET Dm == MaskRow(D, current, visited)
           nxt == Argmin(Dm[current])
       IN  /\ D' = Dm
           /\ tour' = [tour EXCEPT ![i] = nxt]
           /\ visited' = [visited EXCEPT ![nxt] = TRUE]
           /\ current' = nxt
    /\ i' = i + 1
    /\ UNCHANGED <<entry, pc, error, csVars, outVars, parVars, drvVars>>
    /\ UNCHANGED ptVars

\* Faulty variant: the coordinates are returned in sampling order.
ReorderNone(coords, t) == coords

\* coords[tour], line 423
Reorder(coords, t) == [j \in DOMAIN t |-> coords[t[j]]]

\* Lines 423 and 433-447: the loop is over, the path and its length return.
CsReturn ==
    /\ pc = "nn_tsp_loop"
    /\ i >= ALen(coord_arr)
    /\ approx_optimal_path_arr' = Reorder(coord_arr, tour)
    /\ approx_optimal_path_length' = tour_length(approx_optimal_path_arr')
    /\ pc' = IF entry = "get_compressed_sensing_scan_spectra"
             THEN "drv_setup" ELSE "done"
    /\ UNCHANGED <<entry, error, csVars, tspVars, parVars, drvVars>>
    /\ UNCHANGED ptVars

NextPlanner == NnTspInit \/ NnTspStep \/ CsReturn

NextCS == CsValidate \/ CsSample \/ CsCoords \/ NextPlanner

SpecCS == InitCS /\ [][NextCS]_vars

SpecPlanner == InitPlanner /\ [][NextPlanner]_vars

\* The sequences that hold every element of S once.
RECURSIVE Orderings(_)
Orderings(S) ==
    IF S = {} THEN {<<>>}
    ELSE UNION {{<<c>> \o rest : rest \in Orderings(S \ {c})} : c \in S}

\* The cells of the two top rows of the 4 x 4 map.
ExampleCells == 0 .. 7

\* compressedSensing(np.ones((4, 4)), p) with ceil(16 p) = 8, after
\* np.random.choice has returned: the draw is any ordering of the cells of
\* the two top rows.
InitExample ==
    /\ entry = "compressedSensing"
    /\ shape = <<4, 4>>
    /\ weights = ZeroPrefix(0, 16)
    /\ pNum \in {j \in PNums : Validate(shape, j) = "none"
                                /\ NumSamples(weights, j) = Cardinality(ExampleCells)}
    /\ pc = "cs_coords"
    /\ error = "none"
    /\ rngCalls = 1
    /\ \E s \in Orderings(ExampleCells) :
          TSP_points = [j \in 0 .. Len(s) - 1 |-> s[j + 1]]
    /\ coord_arr = Empty /\ start_n = 0
    /\ D = Empty /\ visited = Empty /\ tour = Empty /\ current = 0 /\ i = 0
    /\ approx_optimal_path_arr = Empty
    /\ approx_optimal_path_length = Empty
    /\ repeats = 1 /\ forward_back = TRUE /\ return_filename = FALSE
    /\ calls = <<>>
    /\ rc = "RMT_SUCCESS"
    /\ view_count = 0
    /\ delivered = 0
    /\ pos = 0
    /\ x_data_total_lst = <<>>
    /\ y_data_total_lst = <<>>
    /\ filename_total_lst = <<>>
    /\ x_data = "None" /\ y_data = Empty /\ result = "None"

NextExample == CsCoords \/ NextPlanner

SpecExample == InitExample /\ [][NextExample]_vars

-----------------------------------------------------------------------------
(* get_compressed_sensing_scan_spectra *)

\* A call get_compressed_sensing_scan_spectra(channel_name,
\* inputProbDensArray, p, drift, ..., repeats, forward_back, return_filename).
InitDriver ==
    /\ entry = "get_compressed_sensing_scan_spectra"
    /\ shape \in Shapes
    /\ weights \in DensityMaps(shape)
    /\ pNum \in PNums
    /\ Validate(shape, pNum) = "none" => NumSamples(weights, pNum) <= MaxDrvK
    /\ pc = "cs_validate"
    /\ coord_arr = Empty /\ start_n = 0
    /\ repeats \in 1 .. MaxRepeats
    /\ forward_back \in BOOLEAN
    /\ return_filename \in BOOLEAN
    /\ calls = EntryCalls
    /\ Idle

Call(op) == [op |-> op, arg |-> <<>>]

CallAt(op, point) == [op |-> op, arg |-> point]

RCs == {"RMT_SUCCESS", "RMT_FAIL"}

\* Faulty variant: the backward sweeps are not counted.
MaxCountRepeatsOnly(rep, fb) == rep

\* repeats * (forward_back + 1), lines 128, 251 and 312
MaxCount(rep, fb) == rep * ((IF fb THEN 1 ELSE 0) + 1)

\* Lines 254-255 and 315-316: repeats lists of forward_back + 1 unset slots.
YDataInit(rep, fb) ==
    [c \in 1 .. rep |-> [q \in 1 .. (IF fb THEN 2 ELSE 1) |-> "None"]]

\* Lines 296-299 on the y_data the callback left.
ParseYData(y, rep, fb) ==
    LET one == IF fb THEN y ELSE [c \in DOMAIN y |-> y[c][1]]
    IN  IF rep = 1 THEN one[1] ELSE one

\* view_spectroscopy_callback of the driver, lines 257-267, run with the
\* module-level view_count at vc.  The function assigns view_count and
\* declares it neither global nor nonlocal, so the name is local to it and
\* view_count += 1 (line 259) raises UnboundLocalError; nothing after it
\* runs and the module-level view_count keeps its value.
view_spectroscopy_callback(vc) == [raised |-> TRUE, view_count |-> vc]

\* Lines 245-277: the result lists, the counters and the channel set-up.
DrvSetup ==
    /\ pc = "drv_setup"
    /\ view_count' = 0
    /\ pos' = 0
    /\ x_data_total_lst' = <<>>
    /\ y_data_total_lst' = <<>>
    /\ filename_total_lst' = <<>>
    /\ calls' = calls \o
          << Call("enable_channel"), Call("Spectroscopy_Mode"),
             Call("Device_Points"), Call("Raster_Time"), Call("Device_Start"),
             Call("Device_End"), Call("Device_Repetitions"),
             Call("Enable_Device_Ramp_Reversal") >>
    /\ pc' = "drv_loop"
    /\ UNCHANGED <<entry, error, csVars, tspVars, outVars, parVars, rc, delivered>>
    /\ UNCHANGED ptVars

\* Faulty variant: the loop runs over coord_arr, in sampling order.
TargetInSamplingOrder(at) == coord_arr[at]

\* The [x, y] of the for loop of line 279 at its iteration number `at`.
Target(at) == approx_optimal_path_arr[at]

\* Lines 279-290: the next tour point; the instrument calls leave mo.mate.rc
\* at success or at a failure code.
DrvMove ==
    /\ pc = "drv_loop"
    /\ pos < ALen(approx_optimal_path_arr)
    /\ calls' = calls \o
          << Call("Store_Current_Position(True)"),
             CallAt("Target_Position", Target(pos)),
             Call("Trigger_Execute_At_Target_Position(True)"),
             Call("move"), Call("allocate_sample_memory"),
             Call("view.Data(view_spectroscopy_callback)") >>
    /\ rc' \in RCs
    /\ pc' = "drv_wait"
    /\ UNCHANGED <<entry, error, csVars, tspVars, outVars, parVars, view_count,
                   delivered, pos, x_data_total_lst, y_data_total_lst,
                   filename_total_lst>>
    /\ UNCHANGED ptVars

\* The condition of the while loop, lines 291.
Waiting == view_count < MaxCount(repeats, forward_back) /\ rc = "RMT_SUCCESS"

\* One mo.wait_for_event() of line 292.  A data event runs the registered
\* callback inside the instrument library, which either drops the callback's
\* exception or lets it through to the driver; any event leaves mo.mate.rc
\* at success or at a failure code.
DrvWaitEvent ==
    /\ pc = "drv_wait"
    /\ Waiting
    /\ \/ /\ delivered < MaxEvents
          /\ delivered' = delivered + 1
          /\ LET r == view_spectroscopy_callback(view_count)
             IN  IF r.raised
                 THEN \/ /\ rc' \in RCs
                         /\ UNCHANGED <<pc, error, view_count>>
                      \/ /\ Raise("UnboundLocalError")
                         /\ UNCHANGED <<rc, view_count>>
                 ELSE /\ view_count' = r.view_count
                      /\ rc' \in RCs
                      /\ UNCHANGED <<pc, error>>
       \/ /\ rc' = "RMT_FAIL"
          /\ UNCHANGED <<pc, error, view_count, delivered>>
    /\ UNCHANGED <<entry, csVars, tspVars, outVars, parVars, calls, pos,
                   x_data_total_lst, y_data_total_lst, filename_total_lst>>
    /\ UNCHANGED ptVars

\* Lines 293-316: the wait loop is over; the data of this point is parsed and
\* appended and the counters are reset.  With return_filename the f-string
\* of line 302 subscripts the integer view_count: TypeError.
DrvCollect ==
    /\ pc = "drv_wait"
    /\ ~Waiting
    /\ IF return_filename
       THEN /\ calls' = calls \o << Call("view.Data()"), Call("Result_File_Path"),
                                    Call("Result_File_Name") >>
            /\ Raise("TypeError")
            /\ UNCHANGED <<view_count, pos, x_data_total_lst, y_data_total_lst>>
       ELSE /\ calls' = Append(calls, Call("view.Data()"))
            /\ x_data_total_lst' = Append(x_data_total_lst, "None")
            /\ y_data_total_lst' =
                  Append(y_data_total_lst,
                         ParseYData(YDataInit(repeats, forward_back),
                                    repeats, forward_back))
            /\ view_count' = 0
            /\ pos' = pos + 1
            /\ pc' = "drv_loop"
            /\ error' = error
    /\ UNCHANGED <<entry, csVars, tspVars, outVars, parVars, rc, delivered,
                   filename_total_lst>>
    /\ UNCHANGED ptVars

\* Lines 318-324: the tour is over; the scanner is restored and the lists
\* return.
DrvRestore ==
    /\ pc = "drv_loop"
    /\ pos >= ALen(approx_optimal_path_arr)
    /\ calls' = calls \o
          << Call("Trigger_Execute_At_Target_Position(False)"),
             Call("Return_To_Stored_Position(True)"),
             Call("Store_Current_Position(False)"), Call("disable_channel") >>
    /\ pc' = "done"
    /\ UNCHANGED <<entry, error, csVars, tspVars, outVars, parVars, rc,
                   view_count, delivered, pos, x_data_total_lst,
                   y_data_total_lst, filename_total_lst>>
    /\ UNCHANGED ptVars

NextDriver == DrvSetup \/ DrvMove \/ DrvWaitEvent \/ DrvCollect \/ DrvRestore

Next == NextCS \/ NextDriver

Spec == InitDriver /\ [][Next]_vars

-----------------------------------------------------------------------------
(* get_point_spectra *)

\* A call get_point_spectra(channel_name, target_position, ..., repeats,
\* forward_back, return_filename).
InitPoint ==
    /\ entry = "get_point_spectra"
    /\ shape = <<3, 3>>
    /\ weights = ZeroPrefix(0, 9)
    /\ pNum = 0
    /\ pc = "pt_setup"
    /\ coord_arr = Empty /\ start_n = 0
    /\ repeats \in 1 .. MaxRepeats
    /\ forward_back \in BOOLEAN
    /\ return_filename \in BOOLEAN
    /\ calls = <<>>
    /\ Idle

\* view_spectroscopy_callback of get_point_spectra, lines 135-146, run for
\* the data of sweep number Packet_Count() = packet of cycle number
\* Cycle_Count() = cycle.  The names are declared global (line 136): the
\* module-level view_count grows by one and the data goes to
\* y_data[cycle - 1][packet - 1], flipped for the backward sweep.
view_spectroscopy_callback_point(vc, y, cycle, packet) ==
    [raised |-> FALSE,
     view_count |-> vc + 1,
     y_data |-> [y EXCEPT ![cycle][packet] =
                    IF packet - 1 = 1 THEN "flipped array" ELSE "array"]]

\* Lines 127-166: the counters, the channel set-up, the move to
\* target_position and the registration of the callback; the instrument
\* calls leave mo.mate.rc at success or at a failure code.
PtSetup ==
    /\ pc = "pt_setup"
    /\ view_count' = 0
    /\ x_data' = "None"
    /\ y_data' = YDataInit(repeats, forward_back)
    /\ \E target_position \in PlannerPoints :
          calls' = calls \o
             << Call("enable_channel"), Call("Spectroscopy_Mode"),
                Call("Device_Points"), Call("Raster_Time"), Call("Device_Start"),
                Call("Device_End"), Call("Device_Repetitions"),
                Call("Enable_Device_Ramp_Reversal"),
                Call("Store_Current_Position(True)"),
                CallAt("Target_Position", target_position),
                Call("Trigger_Execute_At_Target_Position(True)"),
                Call("move"), Call("allocate_sample_memory"),
                Call("view.Data(view_spectroscopy_callback)") >>
    /\ rc' \in RCs
    /\ pc' = "pt_wait"
    /\ UNCHANGED <<entry, error, csVars, tspVars, outVars, parVars, delivered,
                   pos, x_data_total_lst, y_data_total_lst, filename_total_lst,
                   result>>

\* One mo.wait_for_event() of line 170.  A data event runs the registered
\* callback with the cycle and sweep numbers the instrument reports, which
\* lie within the repetitions and directions it was configured for; any
\* event leaves mo.mate.rc at success or at a failure code.
PtWaitEvent ==
    /\ pc = "pt_wait"
    /\ Waiting
    /\ \/ \E cycle \in 1 .. repeats, packet \in 1 .. (IF forward_back THEN 2 ELSE 1) :
             LET r == view_spectroscopy_callback_point(view_count, y_data, cycle, packet)
             IN  /\ delivered' = delivered + 1
                 /\ view_count' = r.view_count
                 /\ y_data' = r.y_data
                 /\ x_data' = "linspace"
                 /\ rc' \in RCs
       \/ /\ rc' = "RMT_FAIL"
          /\ UNCHANGED <<view_count, delivered, x_data, y_data>>
    /\ UNCHANGED <<entry, pc, error, csVars, tspVars, outVars, parVars, calls,
                   pos, x_data_total_lst, y_data_total_lst, filename_total_lst,
                   result>>

\* Lines 171-188: the wait loop is over; the callback is unregistered, the
\* scanner restored, y_data parsed and the result returned.  With
\* return_filename the f-string of line 185 subscripts the integer
\* view_count (the callback keeps the run and cycle counts in view_name):
\* TypeError.
PtFinish ==
    /\ pc = "pt_wait"
    /\ ~Waiting
    /\ y_data' = ParseYData(y_data, repeats, forward_back)
    /\ IF return_filename
       THEN /\ calls' = calls \o
                  << Call("view.Data()"),
                     Call("Trigger_Execute_At_Target_Position(False)"),
                     Call("Return_To_Stored_Position(True)"),
                     Call("Store_Current_Position(False)"),
                     Call("disable_channel"),
                     Call("Result_File_Path"), Call("Result_File_Name") >>
            /\ Raise("TypeError")
            /\ result' = result
       ELSE /\ calls' = calls \o
                  << Call("view.Data()"),
                     Call("Trigger_Execute_At_Target_Position(False)"),
                     Call("Return_To_Stored_Position(True)"),
                     Call("Store_Current_Position(False)"),
                     Call("disable_channel") >>
            /\ result' = <<x_data, y_data'>>
            /\ pc' = "done"
            /\ error' = error
    /\ UNCHANGED <<entry, csVars, tspVars, outVars, parVars, rc, view_count,
                   delivered, pos, x_data, x_data_total_lst, y_data_total_lst,
                   filename_total_lst>>

NextPoint == PtSetup \/ PtWaitEvent \/ PtFinish

SpecPoint == InitPoint /\ [][NextPoint]_vars

-----------------------------------------------------------------------------
(* Claims about the sampler and the planner *)

\* A square n x n map and 0 <= p <= 1.
ValidInput == IsSquare2D(shape) /\ 0 <= pNum /\ pNum <= PDen

PInvalid == pNum < 0 \/ pNum > PDen

SomePositiveWeight == \E c \in DOMAIN weights : weights[c] > 0

\* Nothing of compressedSensing has run past its validation.
NothingComputed ==
    /\ rngCalls = 0
    /\ TSP_points = Empty
    /\ coord_arr = Empty
    /\ tour = Empty
    /\ approx_optimal_path_arr = Empty
    /\ approx_optimal_path_length = Empty

\* C1: for every valid input, the sampling step of compressedSensing (lines
\* 359-382) does not fail, and it yields exactly ceil(p*n^2) coordinates,
\* pairwise distinct, each with x and y in [-1, 1] (in the model's units: in
\* [-(n-1), n-1]); also when some cells have weight zero and when p = 1.
\* Stated for the maps of two or more rows with some positive weight, which
\* leaves aside the 1 x 1 map and the all-zero map.
C1_SamplerYieldsAllCoordinates ==
    (ValidInput /\ SomePositiveWeight /\ shape[1] >= 2) =>
        /\ ~(pc = "raised" /\ error \in {"ValueError", "ZeroDivisionError"})
        /\ pc \in {"nn_tsp", "nn_tsp_loop", "done"} =>
              /\ ALen(coord_arr) = NumSamples(weights, pNum)
              /\ IsInjective(coord_arr)
              /\ \A j \in DOMAIN coord_arr :
                    /\ Abs(coord_arr[j][1]) <= shape[1] - 1
                    /\ Abs(coord_arr[j][2]) <= shape[1] - 1

\* C2: the tour of nn_tsp_matrix is a permutation of its input: after any
\* number of greedy steps the visited set is the set of the indices placed in
\* the tour so far, without repetition; the returned tour has the input's
\* length, holds every input index exactly once, and is the same multiset of
\* points as the input.
C2_TourIsPermutation ==
    /\ pc = "nn_tsp_loop" =>
          /\ {j \in DOMAIN visited : visited[j]} = {tour[j] : j \in 0 .. i - 1}
          /\ \A a, b \in 0 .. i - 1 : tour[a] = tour[b] => a = b
    /\ pc = "done" =>
          /\ DOMAIN approx_optimal_path_arr = DOMAIN coord_arr
          /\ \A c \in DOMAIN coord_arr :
                Cardinality({j \in DOMAIN tour : tour[j] = c}) = 1
          /\ \A q \in PlannerPoints :
                Cardinality({j \in DOMAIN coord_arr : approx_optimal_path_arr[j] = q})
                    = Cardinality({j \in DOMAIN coord_arr : coord_arr[j] = q})

\* C2's case: a finished tour of three points, two of them equal, that does
\* not start at index 0.
C2_Witness ==
    /\ pc = "done"
    /\ ALen(coord_arr) = 3
    /\ start_n # 0
    /\ coord_arr[0] = coord_arr[2]

\* C3: the length compressedSensing reports is the sum of the distances
\* between consecutive tour entries of the open path: k-1 edges, none from
\* the last point back to the start.
C3_LengthIsOpenPath ==
    pc = "done" =>
        approx_optimal_path_length = TourLengthFrom(approx_optimal_path_arr, 1)

\* C4: with one sampled point the tour is that point and the length is 0;
\* with two sampled points the length is their distance, counted once.
C4_BoundaryLengths ==
    pc = "done" =>
        /\ ALen(coord_arr) = 1 =>
              /\ approx_optimal_path_arr = coord_arr
              /\ approx_optimal_path_length = ZeroLength
        /\ ALen(coord_arr) = 2 =>
              approx_optimal_path_length
                  = AddRoot(ZeroLength, SqDist(coord_arr[0], coord_arr[1]))

\* C5: the tour starts at the coordinate at the start index, and in
\* compressedSensing the start index is the position of a sampled coordinate
\* of maximal |x| + |y|.
C5_TourStartsAtFarthest ==
    /\ pc \in {"nn_tsp_loop", "done"} => tour[0] = start_n
    /\ pc \in {"nn_tsp", "nn_tsp_loop", "done"} =>
          \A j \in DOMAIN coord_arr :
              Abs(coord_arr[j][1]) + Abs(coord_arr[j][2])
                  <= Abs(coord_arr[start_n][1]) + Abs(coord_arr[start_n][2])
    /\ pc = "done" => approx_optimal_path_arr[0] = coord_arr[start_n]

\* C5's case: a returned tour whose start point is neither the first sample
\* nor tied with it.
C5_Witness ==
    /\ pc = "done"
    /\ start_n = 2
    /\ Abs(coord_arr[0][1]) + Abs(coord_arr[0][2])
           < Abs(coord_arr[1][1]) + Abs(coord_arr[1][2])
    /\ approx_optimal_path_arr[0] = coord_arr[2]

\* C6: when p < 0 or p > 1, compressedSensing fails with a configuration
\* error (the Exception raised by its validation) before any random sampling
\* and without producing coordinates, a tour or a length.
C6_BadRatioRejectedFirst ==
    PInvalid =>
        /\ NothingComputed
        /\ pc \in {"cs_validate", "raised"}
        /\ pc = "raised" => error = "Exception"

\* C6's case: a square map with p out of range, rejected.
C6_Witness == PInvalid /\ IsSquare2D(shape) /\ pNum < 0 /\ pc = "raised"

\* C7: when the map is not 2-dimensional or not square, compressedSensing
\* fails with a configuration error before any sampling, whatever p is.
C7_BadShapeRejectedFirst ==
    ~IsSquare2D(shape) =>
        /\ NothingComputed
        /\ pc \in {"cs_validate", "raised"}
        /\ pc = "raised" => error = "Exception"

\* C7's case: a 2 x 3 map with a valid p, rejected.
C7_Witness == shape = <<2, 3>> /\ ~PInvalid /\ pc = "raised"

\* C8: with p = 0 (no sampled coordinate) planning ends in a configuration
\* error: it neither fails in another way nor returns a tour.  Stated for
\* the maps of two or more rows with some positive weight.
C8_EmptySampleRejected ==
    (/\ ValidInput /\ SomePositiveWeight /\ shape[1] >= 2
     /\ pNum = 0 /\ pc \in {"raised", "done"}) =>
        (pc = "raised" /\ error = "Exception")

-----------------------------------------------------------------------------
(* Claims about the driver *)

\* compressedSensing is still running, or it raised.
PlanningUnfinished ==
    \/ pc \in {"cs_validate", "cs_sample", "cs_coords", "nn_tsp", "nn_tsp_loop"}
    \/ /\ pc = "raised"
       /\ error \in {"Exception", "ValueError", "ZeroDivisionError", "IndexError"}

\* C9: get_compressed_sensing_scan_spectra issues no instrument call before
\* validation and planning have succeeded; on a run where compressedSensing
\* raises, no instrument call is issued at all.
C9_NoInstrumentCallBeforePlanning == PlanningUnfinished => calls = <<>>

\* C9's case: compressedSensing raised inside the driver, for each kind of
\* failure the validation catches.
C9_Witness ==
    /\ entry = "get_compressed_sensing_scan_spectra"
    /\ pc = "raised"
    /\ error = "Exception"
    /\ IsSquare2D(shape)
    /\ pNum > PDen

IsTarget(c) == c.op = "Target_Position"

\* The positions in calls of the calls named op.
CallsOf(op) == {j \in 1 .. Len(calls) : calls[j].op = op}

\* C10: the driver visits the tour points in tour order, one at a time: its
\* i-th target is the i-th tour coordinate and each move follows its target;
\* between two moves the wait loop of the earlier one has ended (the
\* view.Data() of line 293 has been issued); on return there has been one
\* move per tour point and the x and y lists hold one entry per tour point.
C10_VisitsInTourOrder ==
    LET targets == SelectSeq(calls, IsTarget)
        k == ALen(approx_optimal_path_arr)
    IN  /\ Len(targets) <= k
        /\ \A j \in 1 .. Len(targets) : targets[j].arg = approx_optimal_path_arr[j - 1]
        /\ \A m \in CallsOf("move") :
              /\ m > 2
              /\ calls[m - 2].op = "Target_Position"
        /\ \A a, b \in CallsOf("move") :
              a < b => \E c \in CallsOf("view.Data()") : a < c /\ c < b
        /\ Len(x_data_total_lst) = Len(y_data_total_lst)
        /\ Len(x_data_total_lst) <= Len(targets)
        /\ (entry = "get_compressed_sensing_scan_spectra" /\ pc = "done") =>
              /\ Cardinality(CallsOf("move")) = k
              /\ Len(x_data_total_lst) = k
              /\ Len(y_data_total_lst) = k

\* C10's case: a scan of a two-point tour that is not in sampling order has
\* returned.
C10_Witness ==
    /\ entry = "get_compressed_sensing_scan_spectra"
    /\ pc = "done"
    /\ ALen(approx_optimal_path_arr) = 2
    /\ approx_optimal_path_arr[0] # coord_arr[0]
    /\ Len(x_data_total_lst) = 2

-----------------------------------------------------------------------------
(* Further claims about the sampler and the planner *)

\* C13: for a 1 x 1 map the sampler has a defined outcome: it returns a
\* single coordinate or it rejects the input with a configuration error; it
\* never ends in a division by zero.
C13_SingleCellDefined ==
    (ValidInput /\ SomePositiveWeight /\ shape = <<1, 1>>
        /\ pc \in {"raised", "done"}) =>
        /\ error # "ZeroDivisionError"
        /\ \/ pc = "done" /\ ALen(coord_arr) = 1
           \/ pc = "raised" /\ error = "Exception"

\* The indices placed in the tour before position j.
PlacedBefore(j) == {tour[m] : m \in 0 .. j - 1}

\* C16: at every greedy step the point appended is unvisited, no unvisited
\* point is closer to the current point, and among the unvisited points at
\* that same distance it has the lowest index.
C16_GreedyStepPicksNearestLowest ==
    pc \in {"nn_tsp_loop", "done"} =>
        \A j \in 1 .. i - 1 :
            LET here == coord_arr[tour[j - 1]]
                far == (coord_arr[tour[j]][1] - here[1]) * (coord_arr[tour[j]][1] - here[1])
                         + (coord_arr[tour[j]][2] - here[2]) * (coord_arr[tour[j]][2] - here[2])
            IN  /\ tour[j] \in DOMAIN coord_arr \ PlacedBefore(j)
                /\ \A c \in DOMAIN coord_arr \ PlacedBefore(j) :
                      LET other == (coord_arr[c][1] - here[1]) * (coord_arr[c][1] - here[1])
                                     + (coord_arr[c][2] - here[2]) * (coord_arr[c][2] - here[2])
                      IN  /\ far <= other
                          /\ far = other => tour[j] <= c

\* C16's case: from the start point two distinct unvisited points are at the
\* same distance, a third one is farther, and the lower index was taken.
C16_Witness ==
    /\ pc = "done"
    /\ ALen(coord_arr) = 3
    /\ start_n = 0
    /\ coord_arr[1] # coord_arr[2]
    /\ coord_arr[0] # coord_arr[1]
    /\ SqDist(coord_arr[0], coord_arr[1]) = SqDist(coord_arr[0], coord_arr[2])
    /\ tour[1] = 1

\* The flat index a coordinate of an n x n grid comes from.
IndexOf(c, n) == (((n - 1) - c[1]) \div 2) * n + ((c[2] + (n - 1)) \div 2)

\* C17: for n >= 2 the index-to-coordinate mapping is injective, sends row 0
\* to x = 1, the last row to x = -1, column 0 to y = -1 and the last column
\* to y = 1 (in the model's units: n-1 and -(n-1)), and coord_arr keeps the
\* sampling order: entry j is the image of the j-th sampled index.
C17_IndexToCoordinate ==
    (pc \in {"nn_tsp", "nn_tsp_loop", "done"} /\ shape[1] >= 2) =>
        LET n == shape[1]
        IN  /\ DOMAIN coord_arr = DOMAIN TSP_points
            /\ \A j \in DOMAIN coord_arr :
                  LET row == TSP_points[j] \div n
                      col == TSP_points[j] % n
                  IN  /\ row = 0 => coord_arr[j][1] = n - 1
                      /\ row = n - 1 => coord_arr[j][1] = -(n - 1)
                      /\ col = 0 => coord_arr[j][2] = -(n - 1)
                      /\ col = n - 1 => coord_arr[j][2] = n - 1
                      /\ IndexOf(coord_arr[j], n) = TSP_points[j]
            /\ \A j, m \in DOMAIN coord_arr :
                  coord_arr[j] = coord_arr[m] => TSP_points[j] = TSP_points[m]

\* C17's case: a 3 x 3 map sampled at its top right cell, then at its centre,
\* then at its bottom left cell.
C17_Witness ==
    /\ pc = "done"
    /\ shape = <<3, 3>>
    /\ ALen(TSP_points) = 3
    /\ TSP_points[0] = 2 /\ TSP_points[1] = 4 /\ TSP_points[2] = 6
    /\ coord_arr[0] = <<2, 2>> /\ coord_arr[1] = <<0, 0>> /\ coord_arr[2] = <<-2, -2>>

\* C18: each data event handed to the driver's callback adds one to the
\* view_count the wait loop reads (so that the loop ends after
\* repeats * (forward_back + 1) events).
C18_EventIsCounted ==
    [][delivered' = delivered + 1 => view_count' = view_count + 1]_vars

\* The instrument calls that restore the scanner, lines 319-322.
RestoreSequence ==
    << Call("Trigger_Execute_At_Target_Position(False)"),
       Call("Return_To_Stored_Position(True)"),
       Call("Store_Current_Position(False)"), Call("disable_channel") >>

\* C19: an execution that has enabled the channel and set
\* Trigger_Execute_At_Target_Position(True) ends only after the restore
\* sequence has run, whatever repeats, forward_back and return_filename are.
\* Stated for the executions that do not end in the callback's own
\* exception.
C19_RestoredBeforeEnd ==
    (/\ pc \in {"done", "raised"}
     /\ error # "UnboundLocalError"
     /\ CallsOf("enable_channel") # {}
     /\ CallsOf("Trigger_Execute_At_Target_Position(True)") # {}) =>
        \E at \in 1 .. Len(calls) - 3 :
            /\ SubSeq(calls, at, at + 3) = RestoreSequence
            /\ \A m \in CallsOf("Trigger_Execute_At_Target_Position(True)") : m < at

-----------------------------------------------------------------------------
(* The planner's tour against the sampling order *)

\* floor(1000 * sqrt(f))
RootFloor ==
    [f \in Radicands |->
        CHOOSE r \in 0 .. 15000 :
            r * r <= f * 1000000 /\ (r + 1) * (r + 1) > f * 1000000]

\* ceiling(1000 * sqrt(f))
RootCeil ==
    [f \in Radicands |->
        IF RootFloor[f] * RootFloor[f] = f * 1000000
        THEN RootFloor[f] ELSE RootFloor[f] + 1]

\* A lower bound of 1000 * (a - b), for lengths a and b, summed over the
\* radicands in S.
RECURSIVE LowerOfDifference(_, _, _)
LowerOfDifference(S, a, b) ==
    IF S = {} THEN 0
    ELSE LET f == CHOOSE g \in S : TRUE
             d == a[f] - b[f]
         IN  (IF d > 0 THEN d * RootFloor[f] ELSE d * RootCeil[f])
               + LowerOfDifference(S \ {f}, a, b)

\* The length a is greater than the length b.
Longer(a, b) ==
    LowerOfDifference({f \in Radicands : a[f] # b[f]}, a, b) > 0

\* The length a is at most the length b.
NoLonger(a, b) ==
    LowerOfDifference({f \in Radicands : a[f] # b[f]}, b, a) >= 0

\* The length a, doubled.
Twice(a) == [f \in Radicands |-> 2 * a[f]]

\* The squared distance of two points, spelled out.
Apart(a, b) == (a[1] - b[1]) * (a[1] - b[1]) + (a[2] - b[2]) * (a[2] - b[2])

-----------------------------------------------------------------------------
(* Claims about get_point_spectra *)

\* C14: with return_filename true the call does not fail for it and returns
\* three values, (x_data, y_data, filename).
C14_FilenameReturned ==
    (return_filename /\ pc \in {"done", "raised"}) =>
        /\ pc = "done"
        /\ error = "none"
        /\ Len(result) = 3

\* C15: the y_data get_point_spectra returns is a list of `repeats`
\* two-element lists for repeats > 1 and both directions, a list of
\* `repeats` arrays for repeats > 1 and one direction, a two-element list
\* for repeats = 1 and both directions, a single array for repeats = 1 and
\* one direction; and the call gets past its wait loop with mo.mate.rc at
\* success only after repeats * (forward_back + 1) data events were counted.
C15_ShapeAndCount ==
    /\ pc = "done" =>
          LET y == result[2]
              Forward == {"None", "array"}
              Backward == {"None", "flipped array"}
          IN  IF repeats > 1 /\ forward_back
              THEN /\ Len(y) = repeats
                   /\ \A c \in 1 .. repeats :
                         Len(y[c]) = 2 /\ y[c][1] \in Forward /\ y[c][2] \in Backward
              ELSE IF repeats > 1
              THEN Len(y) = repeats /\ \A c \in 1 .. repeats : y[c] \in Forward
              ELSE IF forward_back
              THEN Len(y) = 2 /\ y[1] \in Forward /\ y[2] \in Backward
              ELSE y \in Forward
    /\ (pc \in {"done", "raised"} /\ rc = "RMT_SUCCESS") =>
          /\ view_count >= repeats * ((IF forward_back THEN 1 ELSE 0) + 1)
          /\ delivered >= repeats * ((IF forward_back THEN 1 ELSE 0) + 1)

\* C15's case: two repeats in both directions, every sweep delivered, the
\* status still at success, and the four arrays returned.
C15_Witness ==
    /\ pc = "done"
    /\ repeats = 2 /\ forward_back
    /\ rc = "RMT_SUCCESS"
    /\ view_count = 4
    /\ result[1] = "linspace"
    /\ result[2] = << <<"array", "flipped array">>, <<"array", "flipped array">> >>

=============================================================================
